---- MODULE Spec2Model ----
(***************************************************************************)
(* A model of aind_exaspim_dataset_utils: the S3 image-prefix locator with *)
(* its JSON prefix cache (s3_util.py, io_util.py), the dated results       *)
(* directory selection (data_util.py) and the SmartSheet merge-site        *)
(* extraction (smartsheet_util.py).                                        *)
(*                                                                         *)
(* A Python str is a sequence of one-character strings, so that substring  *)
(* tests, lower(), split(), os.path.join and the ordering of sorted() and  *)
(* of S3 listings are computed, not assumed.                               *)
(***************************************************************************)
EXTENDS Integers, Sequences, FiniteSets, TLC

VARIABLES
    bucket,      \* aind-open-data: a set of objects [key, shape]
    cacheFile,   \* the prefix lookup file: the members of its JSON object, in order
    lastCall,    \* what the last get_img_prefix call did and returned
    resolved,    \* history: brain_id -> the prefix a successful cache miss returned
    jsonIn,      \* io_util: the dict handed to write_json
    jsonFile,    \* io_util: the members of the JSON object on disk
    jsonOut,     \* io_util: the dict read_json returned
    jsonPc,      \* io_util: "init", "written" or "read"
    dirsIn,      \* data_util: the list handed to find_most_recent_dirname
    dirsOut,     \* data_util: what it returned
    sheet,       \* smartsheet_util: the rows of the sheet snapshot
    sheetOut,    \* smartsheet_util: the result of the last query on the sheet
    listOut      \* s3_util: the last direct call of a listing operation or of
                 \* find_img_prefix on the bucket, and what it returned

vars == <<bucket, cacheFile, lastCall, resolved, jsonIn, jsonFile, jsonOut,
          jsonPc, dirsIn, dirsOut, sheet, sheetOut, listOut>>

locatorVars == <<bucket, cacheFile, lastCall, resolved>>
jsonVars == <<jsonIn, jsonFile, jsonOut, jsonPc>>
dirVars == <<dirsIn, dirsOut>>
sheetVars == <<sheet, sheetOut>>
listVars == <<listOut>>

----------------------------------------------------------------------------
(* Python str operations                                                   *)

\* The characters that occur, in code point order (the order of str
\* comparison, hence of sorted() and of an S3 listing).
Alphabet ==
    <<" ", "(", ")", ",", "-", ".", "/", "0", "1", "2", "3", "4", "5", "6", "7", "8", "9", ":",
      "E", "I", "M", "P", "S", "T", "_",
      "a", "b", "d", "e", "f", "i", "l", "m", "n", "o", "p", "r", "s", "t",
      "u", "x", "y", "z">>

OrdOf ==
    [c \in {Alphabet[i] : i \in 1..Len(Alphabet)} |->
        CHOOSE i \in 1..Len(Alphabet) : Alphabet[i] = c]

\* ord(c)
Ord(c) == OrdOf[c]

\* str.lower() on one character
LowerChar(c) ==
    CASE c = "E" -> "e" [] c = "I" -> "i" [] c = "M" -> "m" [] c = "P" -> "p"
      [] c = "S" -> "s" [] c = "T" -> "t" [] OTHER -> c

Lower(s) == [i \in 1..Len(s) |-> LowerChar(s[i])]

StartsWith(s, p) == Len(p) <= Len(s) /\ SubSeq(s, 1, Len(p)) = p

EndsWith(s, p) ==
    Len(p) <= Len(s) /\ SubSeq(s, Len(s) - Len(p) + 1, Len(s)) = p

\* sub in s
Contains(s, sub) ==
    \E i \in 0..(Len(s) - Len(sub)) : SubSeq(s, i + 1, i + Len(sub)) = sub

\* s < t for two str (lexicographic by code point)
RECURSIVE StrLessFrom(_, _, _)
StrLessFrom(s, t, i) ==
    IF i > Len(t) THEN FALSE
    ELSE IF i > Len(s) THEN TRUE
    ELSE IF s[i] = t[i] THEN StrLessFrom(s, t, i + 1)
    ELSE Ord(s[i]) < Ord(t[i])

StrLess(s, t) == StrLessFrom(s, t, 1)

\* s.split(sep) for a one-character separator: the list of fields
RECURSIVE SplitFrom(_, _, _, _)
SplitFrom(s, sep, i, cur) ==
    IF i > Len(s) THEN <<cur>>
    ELSE IF s[i] = sep THEN <<cur>> \o SplitFrom(s, sep, i + 1, <<>>)
    ELSE SplitFrom(s, sep, i + 1, Append(cur, s[i]))

Split(s, sep) == SplitFrom(s, sep, 1, <<>>)

\* s.split(sep, 1): at most one split, at the first separator
SplitOnce(s, sep) ==
    IF \E i \in 1..Len(s) : s[i] = sep
    THEN LET i == CHOOSE k \in 1..Len(s) :
                      s[k] = sep /\ \A j \in 1..(k - 1) : s[j] # sep
         IN  <<SubSeq(s, 1, i - 1), SubSeq(s, i + 1, Len(s))>>
    ELSE <<s>>

\* s.rstrip(c)
RECURSIVE RStrip(_, _)
RStrip(s, c) ==
    IF Len(s) > 0 /\ s[Len(s)] = c THEN RStrip(SubSeq(s, 1, Len(s) - 1), c)
    ELSE s

\* s.replace(old, new): every non-overlapping occurrence, left to right
RECURSIVE Replace(_, _, _)
Replace(s, old, new) ==
    IF Len(s) = 0 THEN <<>>
    ELSE IF StartsWith(s, old)
         THEN new \o Replace(SubSeq(s, Len(old) + 1, Len(s)), old, new)
         ELSE <<s[1]>> \o Replace(Tail(s), old, new)

\* os.path.join(a, b)
PathJoin(a, b) ==
    IF Len(b) > 0 /\ b[1] = "/" THEN b
    ELSE IF Len(a) = 0 \/ a[Len(a)] = "/" THEN a \o b
    ELSE a \o <<"/">> \o b

\* str(n) for an int n >= 0: its decimal digits
Digit(d) == Alphabet[Ord("0") + d]

RECURSIVE IntToStr(_)
IntToStr(n) ==
    IF n < 10 THEN <<Digit(n)>> ELSE IntToStr(n \div 10) \o <<Digit(n % 10)>>

\* int(s) for a str of decimal digits
RECURSIVE StrToInt(_)
StrToInt(s) ==
    IF s = <<>> THEN 0
    ELSE 10 * StrToInt(SubSeq(s, 1, Len(s) - 1)) + (Ord(s[Len(s)]) - Ord("0"))

\* A Python value: None, a bool, an int or a str, as <<type, number, chars>>
PyNone == <<"none", 0, <<>>>>
PyBool(x) == <<"bool", IF x THEN 1 ELSE 0, <<>>>>
PyStr(s) == <<"str", 0, s>>
PyInt(n) == <<"int", n, <<>>>>

\* bool(v)
Truthy(v) ==
    CASE v[1] = "none" -> FALSE
      [] v[1] = "bool" -> v[2] = 1
      [] v[1] = "int" -> v[2] # 0
      [] OTHER -> Len(v[3]) > 0

\* a or b
PyOr(a, b) == IF Truthy(a) THEN a ELSE b

\* str(v)
Str(v) == IF v[1] = "int" THEN IntToStr(v[2]) ELSE v[3]

\* sorted(xs) for a list of str
RECURSIVE Insert(_, _)
Insert(sorted, x) ==
    IF sorted = <<>> THEN <<x>>
    ELSE IF StrLess(x, Head(sorted)) THEN <<x>> \o sorted
    ELSE <<Head(sorted)>> \o Insert(Tail(sorted), x)

RECURSIVE Sorted(_)
Sorted(xs) ==
    IF xs = <<>> THEN <<>> ELSE Insert(Sorted(SubSeq(xs, 1, Len(xs) - 1)), xs[Len(xs)])

----------------------------------------------------------------------------
(* The S3 bucket and its list_objects_v2 API                               *)

\* Keys per response that list_objects_v2 returns when MaxKeys is not given.
MaxKeys == 1000

\* Whether key has a delimiter after the first n characters
HasDelimiterAfter(key, n) == \E k \in (n + 1)..Len(key) : key[k] = "/"

\* The keys of the bucket under Prefix that have no delimiter after it
ContentKeys(b, prefix) ==
    {o.key : o \in {x \in b : /\ StartsWith(x.key, prefix)
                             /\ ~HasDelimiterAfter(x.key, Len(prefix))}}

\* The common prefixes: Prefix plus what follows up to the first delimiter
CommonPrefixOf(key, prefix) ==
    LET i == CHOOSE k \in (Len(prefix) + 1)..Len(key) :
                 key[k] = "/" /\ \A j \in (Len(prefix) + 1)..(k - 1) : key[j] # "/"
    IN  SubSeq(key, 1, i)

CommonPrefixes(b, prefix) ==
    {CommonPrefixOf(o.key, prefix) :
        o \in {x \in b : /\ StartsWith(x.key, prefix)
                         /\ HasDelimiterAfter(x.key, Len(prefix))}}

\* A set of str in listing order
RECURSIVE InOrder(_)
InOrder(S) ==
    IF S = {} THEN <<>>
    ELSE LET m == CHOOSE x \in S : \A y \in S \ {x} : StrLess(x, y)
         IN  <<m>> \o InOrder(S \ {m})

SelectIn(seq, S) == SelectSeq(seq, LAMBDA x : x \in S)

\* The response that holds the entries first + 1 .. last of the listing all
ResponseOf(all, cs, first, last) ==
    [Contents |-> SelectIn(SubSeq(all, first + 1, last), cs),
     CommonPrefixes |-> SelectSeq(SubSeq(all, first + 1, last), LAMBDA x : x \notin cs),
     IsTruncated |-> last < Len(all),
     NextContinuationToken |-> last]

PageOf(all, cs, token, ps) ==
    ResponseOf(all, cs, token, IF token + ps < Len(all) THEN token + ps ELSE Len(all))

ListingOf(cs, cps, token, ps) == PageOf(InOrder(cs \cup cps), cs, token, ps)

\* One response of list_objects_v2(Bucket, Prefix, Delimiter="/",
\* ContinuationToken=token): at most ps entries of the listing, keys and
\* common prefixes together, from entry token + 1 on (token 0: no token).
list_objects_v2(b, prefix, token, ps) ==
    ListingOf(ContentKeys(b, prefix), CommonPrefixes(b, prefix), token, ps)

----------------------------------------------------------------------------
(* s3_util.py                                                              *)

\* the last field of a name
LastField(s) == LET f == Split(s, "/") IN f[Len(f)]

\* The two loops of exists_in_prefix over one page
found_in_page(page, target_name) ==
    \/ \E i \in 1..Len(page.Contents) :
           LastField(page.Contents[i]) = target_name
    \/ \E i \in 1..Len(page.CommonPrefixes) :
           LastField(RStrip(page.CommonPrefixes[i], "/")) = target_name

\* exists_in_prefix: the paginator requests pages until one is not truncated
RECURSIVE exists_in_pages(_, _, _, _, _)
exists_from_page(b, prefix, target_name, page, ps) ==
    IF found_in_page(page, target_name) THEN TRUE
    ELSE IF page.IsTruncated
    THEN exists_in_pages(b, prefix, target_name, page.NextContinuationToken, ps)
    ELSE FALSE

exists_in_pages(b, prefix, target_name, token, ps) ==
    exists_from_page(b, prefix, target_name,
                     list_objects_v2(b, prefix, token, ps), ps)

exists_in_prefix(b, prefix, target_name, ps) ==
    exists_in_pages(b, prefix, target_name, 0, ps)

\* The prefixes of one response that list_bucket_prefixes keeps
keyword_prefixes(response, keyword) ==
    SelectSeq(response.CommonPrefixes, LAMBDA p : Contains(Lower(p), keyword))

\* list_bucket_prefixes with a keyword: the while True loop over the pages
RECURSIVE list_bucket_pages(_, _, _, _, _)
list_bucket_from(b, keyword, response, prefixes, ps) ==
    IF response.IsTruncated
    THEN list_bucket_pages(b, keyword, response.NextContinuationToken,
                           prefixes \o keyword_prefixes(response, keyword), ps)
    ELSE prefixes \o keyword_prefixes(response, keyword)

list_bucket_pages(b, keyword, token, prefixes, ps) ==
    list_bucket_from(b, keyword, list_objects_v2(b, <<>>, token, ps), prefixes, ps)

list_bucket_prefixes(b, keyword, ps) ==
    list_bucket_pages(b, keyword, 0, <<>>, ps)

\* list_prefixes: one list_objects_v2 call, its CommonPrefixes
list_prefixes(b, prefix, ps) ==
    list_objects_v2(b, IF EndsWith(prefix, <<"/">>) THEN prefix ELSE prefix \o <<"/">>,
                    0, ps).CommonPrefixes

\* range(0, 8): the multiscale levels a fused.zarr must hold
NumLevels == 8

\* The shape bound of is_shape_plausible
PlausibleDim == 25000

s_test == <<"t", "e", "s", "t">>
s_fusion == <<"f", "u", "s", "i", "o", "n">>
s_fused_zarr == <<"f", "u", "s", "e", "d", ".", "z", "a", "r", "r">>
s_zarray == <<".", "z", "a", "r", "r", "a", "y">>
s_exaspim_ == <<"e", "x", "a", "s", "p", "i", "m", "_">>
s_s3_root ==
    <<"s", "3", ":", "/", "/", "a", "i", "n", "d", "-", "o", "p", "e", "n", "-",
      "d", "a", "t", "a">>

\* is_test with the lower() left out
is_test_cased(prefix) == Contains(prefix, s_test)

\* "test" in prefix.lower()
is_test(prefix) == Contains(Lower(prefix), s_test)

\* s.split("/")[-2] of every listed prefix
multiscales_of(listed) ==
    [i \in 1..Len(listed) |-> LET f == Split(listed[i], "/") IN f[Len(f) - 1]]

levels_in(multiscales) ==
    \A l \in 0..(NumLevels - 1) :
        \E i \in 1..Len(multiscales) : multiscales[i] = IntToStr(l)

\* the level check of is_valid_img_prefix, made when fused.zarr is found
has_all_levels(b, prefix, ps) ==
    levels_in(multiscales_of(list_prefixes(b, PathJoin(prefix, s_fused_zarr), ps)))

is_valid_img_prefix(b, prefix, brain_id, ps) ==
    IF ~Contains(prefix, Str(brain_id)) \/ is_test(prefix) THEN FALSE
    ELSE IF exists_in_prefix(b, prefix, s_fused_zarr, ps)
    THEN has_all_levels(b, prefix, ps)
    ELSE TRUE

\* max(img.shape) > 25000
shape_exceeds(shape) == \E i \in 1..Len(shape) : shape[i] > PlausibleDim

\* The array that zarr.open reads for a store rooted at root
array_key(root) ==
    SubSeq(root, Len(s_s3_root) + 2, Len(root)) \o <<"/">> \o s_zarray

\* is_shape_plausible with `return True` in the except branch: only an
\* array that opens and is small gives False
is_shape_plausible_on_error(b, prefix) ==
    ~\E o \in b : /\ o.key = array_key(PathJoin(prefix, IntToStr(0)))
                  /\ o.shape # <<>>
                  /\ ~shape_exceeds(o.shape)

\* is_shape_plausible: zarr.open of level 0 reads <root>/.zarray; a missing
\* or unreadable array (shape <<>>) raises inside the try and gives False
is_shape_plausible(b, prefix) ==
    \E o \in b : /\ o.key = array_key(PathJoin(prefix, IntToStr(0)))
                 /\ o.shape # <<>>
                 /\ shape_exceeds(o.shape)

\* The body of the loop of find_img_prefix for one listed prefix: the
\* candidate it appends, if any
plausible_candidate(b, full) == IF is_shape_plausible(b, full) THEN <<full>> ELSE <<>>

valid_candidate(b, prefix, brain_id, ps) ==
    IF is_valid_img_prefix(b, prefix, brain_id, ps)
    THEN plausible_candidate(b, PathJoin(PathJoin(s_s3_root, prefix), s_fused_zarr))
    ELSE <<>>

candidate_of(b, listed, brain_id, ps) ==
    valid_candidate(b,
                    IF exists_in_prefix(b, listed, s_fusion, ps)
                    THEN PathJoin(listed, s_fusion) ELSE listed,
                    brain_id, ps)

RECURSIVE valid_prefixes_of(_, _, _, _)
valid_prefixes_of(b, prefixes, brain_id, ps) ==
    IF prefixes = <<>> THEN <<>>
    ELSE candidate_of(b, Head(prefixes), brain_id, ps)
         \o valid_prefixes_of(b, Tail(prefixes), brain_id, ps)

find_img_prefix(b, brain_id, ps) ==
    valid_prefixes_of(b, list_bucket_prefixes(b, s_exaspim_ \o Str(brain_id), ps),
                      brain_id, ps)

----------------------------------------------------------------------------
(* io_util.py: a dict is the list of its <<key, value>> items in insertion *)
(* order; the file holds the members <<name, value>> of one JSON object.   *)

DictHas(d, k) == \E i \in 1..Len(d) : d[i][1] = k

DictGet(d, k) == d[CHOOSE i \in 1..Len(d) : d[i][1] = k][2]

\* d[k] = v
DictSet(d, k, v) ==
    IF DictHas(d, k)
    THEN [i \in 1..Len(d) |-> IF d[i][1] = k THEN <<k, v>> ELSE d[i]]
    ELSE Append(d, <<k, v>>)

\* json_load keeping the first value of a repeated name
RECURSIVE json_load_first(_)
json_load_first(members) ==
    IF members = <<>> THEN <<>>
    ELSE LET m == members[Len(members)]
             d == json_load_first(SubSeq(members, 1, Len(members) - 1))
         IN  IF DictHas(d, PyStr(m[1])) THEN d ELSE Append(d, <<PyStr(m[1]), m[2]>>)

\* json.load: every member name is a str; a repeated name keeps its first
\* place and takes the last value
RECURSIVE json_load(_)
json_load(members) ==
    IF members = <<>> THEN <<>>
    ELSE LET m == members[Len(members)]
         IN  DictSet(json_load(SubSeq(members, 1, Len(members) - 1)),
                     PyStr(m[1]), m[2])

\* json.dump: one member per item, an int key written as the str of it
json_dump(contents) == [i \in 1..Len(contents) |-> <<Str(contents[i][1]), contents[i][2]>>]

read_json(file) == json_load(file)

write_json(contents) == json_dump(contents)

----------------------------------------------------------------------------
(* s3_util.get_img_prefix                                                  *)

\* found_prefix taking the first candidate of a non-empty result
found_prefix_first(file, brain_id, use_lookup, prefix_lookup, listed, result) ==
    IF Len(result) >= 1
    THEN [outcome |-> "return", value |-> result[1] \o <<"/">>,
          hit |-> FALSE, listed |-> listed, found |-> result, msg |-> <<>>,
          wrote |-> use_lookup,
          file |-> IF use_lookup
                   THEN write_json(DictSet(prefix_lookup, brain_id,
                                           result[1] \o <<"/">>))
                   ELSE file]
    ELSE [outcome |-> "raise", value |-> <<>>,
          hit |-> FALSE, listed |-> listed, found |-> result, msg |-> result,
          wrote |-> FALSE, file |-> file]

\* get_img_prefix after find_img_prefix returned result; listed: the bucket
\* prefixes that find_img_prefix listed and went through
found_prefix(file, brain_id, use_lookup, prefix_lookup, listed, result) ==
    IF Len(result) = 1
    THEN [outcome |-> "return", value |-> result[1] \o <<"/">>,
          hit |-> FALSE, listed |-> listed, found |-> result, msg |-> <<>>,
          wrote |-> use_lookup,
          file |-> IF use_lookup
                   THEN write_json(DictSet(prefix_lookup, brain_id,
                                           result[1] \o <<"/">>))
                   ELSE file]
    ELSE [outcome |-> "raise", value |-> <<>>,
          hit |-> FALSE, listed |-> listed, found |-> result, msg |-> result,
          wrote |-> FALSE, file |-> file]

\* get_img_prefix after the lookup was read (the empty dict: no path given)
looked_up(b, file, brain_id, use_lookup, ps, prefix_lookup) ==
    IF use_lookup /\ DictHas(prefix_lookup, brain_id)
    THEN [outcome |-> "return", value |-> DictGet(prefix_lookup, brain_id),
          hit |-> TRUE, listed |-> <<>>, found |-> <<>>, msg |-> <<>>,
          wrote |-> FALSE, file |-> file]
    ELSE found_prefix(file, brain_id, use_lookup, prefix_lookup,
                      list_bucket_prefixes(b, s_exaspim_ \o Str(brain_id), ps),
                      find_img_prefix(b, brain_id, ps))

\* The outcome of get_img_prefix(brain_id, prefix_lookup_path) on bucket b
\* with the lookup file holding `file`; use_lookup: a path was given.
get_img_prefix(b, file, brain_id, use_lookup, ps) ==
    looked_up(b, file, brain_id, use_lookup, ps,
              IF use_lookup THEN read_json(file) ELSE <<>>)

----------------------------------------------------------------------------
(* The locator's environment and calls                                     *)

\* The datasets that may be in the bucket at once.
MaxDatasets == 2

\* The keys of one dataset: <top>[fusion/]fused.zarr/<level>/.zarray for the
\* levels 0..nlevels-1, level 0 holding an array of shape shape0
Dataset(top, fusion, nlevels, shape0) ==
    {[key |-> PathJoin(PathJoin(PathJoin(IF fusion THEN PathJoin(top, s_fusion) ELSE top,
                                         s_fused_zarr), IntToStr(l)), s_zarray),
      shape |-> IF l = 0 THEN shape0 ELSE <<1, 1, 1>>] : l \in 0..(nlevels - 1)}

top_1_0 == <<"e", "x", "a", "S", "P", "I", "M", "_", "1", "_", "0", "/">>
top_1_a == <<"e", "x", "a", "S", "P", "I", "M", "_", "1", "_", "a", "/">>
top_1_b == <<"e", "x", "a", "S", "P", "I", "M", "_", "1", "_", "b", "/">>
top_1_TEST == <<"e", "x", "a", "S", "P", "I", "M", "_", "1", "_", "T", "E", "S", "T", "/">>
top_2_a == <<"e", "x", "a", "S", "P", "I", "M", "_", "2", "_", "a", "/">>
top_2_b == <<"e", "x", "a", "S", "P", "I", "M", "_", "2", "_", "b", "/">>

BigShape == <<30000, 20000, 10000>>
SmallShape == <<25000, 2000, 100>>
\* The shape of a level-0 array whose metadata cannot be read
Unreadable == <<>>

\* What may be uploaded: complete and incomplete pyramids in the old layout
\* and under fusion/, a test run, an implausibly small image, an image
\* whose level-0 metadata cannot be read.
Catalogue ==
    <<Dataset(top_1_a, FALSE, NumLevels, BigShape),
      Dataset(top_1_b, TRUE, NumLevels - 1, BigShape),
      Dataset(top_1_TEST, FALSE, NumLevels, BigShape),
      Dataset(top_2_a, FALSE, NumLevels - 1, BigShape),
      Dataset(top_2_b, TRUE, NumLevels, SmallShape),
      Dataset(top_1_a, TRUE, NumLevels, BigShape),
      Dataset(top_1_0, FALSE, NumLevels, Unreadable)>>

Uploaded(b) == {i \in 1..Len(Catalogue) : Catalogue[i] \subseteq b}

\* The brain_id values of the calls: str and int
BrainIds == {PyStr(<<"1">>), PyStr(<<"2">>), PyInt(1)}

NoCall ==
    [id |-> PyStr(<<>>), lookup |-> FALSE, outcome |-> "none", value |-> <<>>,
     hit |-> FALSE, listed |-> <<>>, found |-> <<>>, msg |-> <<>>, wrote |-> FALSE,
     prior |-> <<>>]

LocatorInit ==
    /\ bucket = {}
    /\ cacheFile = <<>>
    /\ lastCall = NoCall
    /\ resolved = [id \in BrainIds |-> <<>>]

\* A dataset is uploaded to the bucket.
Upload(i) ==
    /\ i \notin Uploaded(bucket)
    /\ Cardinality(Uploaded(bucket)) < MaxDatasets
    /\ bucket' = bucket \cup Catalogue[i]
    /\ UNCHANGED <<cacheFile, lastCall, resolved>>

\* The state after a call that did r
Called(brain_id, use_lookup, r) ==
    /\ cacheFile' = r.file
    /\ lastCall' = [id |-> brain_id, lookup |-> use_lookup,
                    outcome |-> r.outcome, value |-> r.value, hit |-> r.hit,
                    listed |-> r.listed, found |-> r.found, msg |-> r.msg,
                    wrote |-> r.wrote,
                    prior |-> IF use_lookup THEN resolved[brain_id] ELSE <<>>]
    /\ resolved' = IF use_lookup /\ ~r.hit /\ r.outcome = "return"
                   THEN [resolved EXCEPT ![brain_id] = r.value]
                   ELSE resolved
    /\ UNCHANGED bucket

\* One call get_img_prefix(brain_id, prefix_lookup_path), with the lookup
\* file or with prefix_lookup_path=None.
GetImgPrefix(brain_id, use_lookup) ==
    Called(brain_id, use_lookup,
           get_img_prefix(bucket, cacheFile, brain_id, use_lookup, MaxKeys))

----------------------------------------------------------------------------
(* io_util.py on its own: one dict written, then read back                 *)

\* The items of a dict that is written.
MaxEntries == 2

CacheKeys == {PyStr(<<"1">>), PyStr(<<"2">>), PyInt(1), PyInt(12)}

CachePaths == {<<"s", "3", ":", "/", "/", "a", "/">>, <<"s", "3", ":", "/", "/", "b", "/">>}

\* The dicts of at most MaxEntries items: the keys of a dict are distinct
JsonDicts ==
    UNION {{d \in [1..n -> CacheKeys \X CachePaths] :
               \A i, j \in 1..n : i # j => d[i][1] # d[j][1]} : n \in 0..MaxEntries}

JsonInit ==
    /\ jsonIn \in JsonDicts
    /\ jsonFile = <<>>
    /\ jsonOut = <<>>
    /\ jsonPc = "init"

JsonIdle == jsonIn = <<>> /\ jsonFile = <<>> /\ jsonOut = <<>> /\ jsonPc = "idle"

\* write_json(path, jsonIn)
WriteJson ==
    /\ jsonPc = "init"
    /\ jsonFile' = write_json(jsonIn)
    /\ jsonPc' = "written"
    /\ UNCHANGED <<jsonIn, jsonOut>>

\* read_json(path)
ReadJson ==
    /\ jsonPc = "written"
    /\ jsonOut' = read_json(jsonFile)
    /\ jsonPc' = "read"
    /\ UNCHANGED <<jsonIn, jsonFile>>

----------------------------------------------------------------------------
(* data_util.find_most_recent_dirname                                      *)

s_results_ == <<"r", "e", "s", "u", "l", "t", "s", "_">>

\* dirname.replace("results_", "") of the field before the trailing "/"
date_of(prefix) ==
    LET f == Split(prefix, "/")
        dirname == f[Len(f) - 1]
    IN  Replace(dirname, s_results_, <<>>)

\* find_most_recent_dirname taking the last date of the unsorted list
find_last_dirname(results_prefix_list) ==
    s_results_ \o date_of(results_prefix_list[Len(results_prefix_list)])

find_most_recent_dirname(results_prefix_list) ==
    LET dates == [i \in 1..Len(results_prefix_list) |-> date_of(results_prefix_list[i])]
        sorted == Sorted(dates)
    IN  s_results_ \o sorted[Len(sorted)]

\* The prefixes of a list that is searched.
MaxDirs == 3

\* The length of YYYYMMDD
DateLen == 8

Dates ==
    {<<"2", "0", "2", "3", "0", "1", "0", "1">>,
     <<"2", "0", "2", "4", "0", "6", "1", "5">>,
     <<"2", "0", "2", "3", "1", "2", "3", "1">>}

Parents == {<<"a">>, <<"b", "/", "x">>}

\* <parent>/results_YYYYMMDD/
ResultPrefixes ==
    {p \o <<"/">> \o s_results_ \o d \o <<"/">> : p \in Parents, d \in Dates}

DirInit ==
    /\ dirsIn \in UNION {[1..n -> ResultPrefixes] : n \in 1..MaxDirs}
    /\ dirsOut = <<>>

DirIdle == dirsIn = <<>> /\ dirsOut = <<>>

FindMostRecentDirname ==
    /\ dirsOut = <<>>
    /\ dirsOut' = find_most_recent_dirname(dirsIn)
    /\ UNCHANGED dirsIn

----------------------------------------------------------------------------
(* smartsheet_util.py: the sheet snapshot is the list of its rows, a row   *)
(* [id, parent_id, cells], a cell [column_id, display_value, value];       *)
(* parent_id 0 is None.                                                    *)

Columns ==
    <<"Sample", "Merge Confirmation", "Reviewed?", "Segmentation ID",
      "Ground Truth ID", "World Coordinates">>

\* column_name_to_id = {c.title: c.id for c in self.sheet.columns}
column_name_to_id ==
    [name \in {Columns[i] : i \in 1..Len(Columns)} |->
        1000 + CHOOSE i \in 1..Len(Columns) : Columns[i] = name]

\* next(c for c in row.cells if c.column_id == col_id)
cell_of(row, col_id) ==
    row.cells[CHOOSE i \in 1..Len(row.cells) :
                  /\ row.cells[i].column_id = col_id
                  /\ \A j \in 1..(i - 1) : row.cells[j].column_id # col_id]

\* get_value preferring the raw value
get_value_raw_first(sh, row_idx, column_name) ==
    LET cell == cell_of(sh[row_idx + 1], column_name_to_id[column_name])
    IN  PyOr(cell.value, cell.display_value)

\* SmartSheetClient.get_value on the snapshot sh; row_idx counts from 0
get_value(sh, row_idx, column_name) ==
    LET row == sh[row_idx + 1]
        col_id == column_name_to_id[column_name]
        cell == cell_of(row, col_id)
    IN  PyOr(cell.display_value, cell.value)

\* idx_lookup = {row.id: idx for idx, row in enumerate(self.sheet.rows)}
idx_lookup(sh, id) == (CHOOSE i \in 1..Len(sh) : sh[i].id = id) - 1

\* get_children_map: the dict parent_idx -> child idxs, as its items in
\* insertion order
RECURSIVE children_map_upto(_, _)
children_map_upto(sh, n) ==
    IF n = 0 THEN <<>>
    ELSE LET m == children_map_upto(sh, n - 1)
             row == sh[n]
         IN  IF row.parent_id # 0
             THEN LET parent_idx == idx_lookup(sh, row.parent_id)
                      child_idx == idx_lookup(sh, row.id)
                  IN  IF DictHas(m, parent_idx)
                      THEN DictSet(m, parent_idx,
                                   Append(DictGet(m, parent_idx), child_idx))
                      ELSE Append(m, <<parent_idx, <<child_idx>>>>)
             ELSE m

get_children_map(sh) == children_map_upto(sh, Len(sh))

\* int(s) for one field of a coordinate literal, blanks and brackets dropped
coordinate(field) ==
    StrToInt(SelectSeq(field, LAMBDA c : c \notin {" ", "(", ")"}))

\* read_xyz: ast.literal_eval of "(x, y, z)"
read_xyz(xyz_str) ==
    LET fields == Split(xyz_str[3], ",")
    IN  [i \in 1..Len(fields) |-> coordinate(fields[i])]

\* is_confirmed without the reviewed flag
is_confirmed_merge_only(is_merge, is_reviewed) == Truthy(is_merge)

\* The if is_merge and is_reviewed of find_confirmed_merge_sites
is_confirmed(is_merge, is_reviewed) == Truthy(is_merge) /\ Truthy(is_reviewed)

\* The if is_reviewed: n_reviewed_sites += 1 of find_confirmed_merge_sites
count_reviewed(n, is_reviewed) == IF Truthy(is_reviewed) THEN n + 1 ELSE n

\* find_confirmed_merge_sites: <<sites, n_reviewed_sites>>
RECURSIVE find_confirmed_merge_sites(_, _)
find_confirmed_merge_sites(sh, idxs) ==
    IF idxs = <<>>
    THEN <<[segment_id |-> <<>>, groundtruth_id |-> <<>>, xyz |-> <<>>], 0>>
    ELSE LET before == find_confirmed_merge_sites(sh, SubSeq(idxs, 1, Len(idxs) - 1))
             i == idxs[Len(idxs)]
             is_merge == get_value(sh, i, "Merge Confirmation")
             is_reviewed == get_value(sh, i, "Reviewed?")
             sites == IF is_confirmed(is_merge, is_reviewed)
                      THEN [segment_id |->
                                Append(before[1].segment_id,
                                       get_value(sh, i, "Segmentation ID")),
                            groundtruth_id |->
                                Append(before[1].groundtruth_id,
                                       get_value(sh, i, "Ground Truth ID")),
                            xyz |->
                                Append(before[1].xyz,
                                       read_xyz(get_value(sh, i, "World Coordinates")))]
                      ELSE before[1]
         IN  <<sites, count_reviewed(before[2], is_reviewed)>>

\* extract_merge_sites: the loop over children_map.items(), carrying the
\* frames appended to merge_site_dfs (one list of records per parent),
\* n_merge_sites and n_reviewed_sites
RECURSIVE extract_loop(_, _, _)
extract_loop(sh, items, n) ==
    IF n = 0 THEN [dfs |-> <<>>, n_merge_sites |-> 0, n_reviewed_sites |-> 0]
    ELSE LET acc == extract_loop(sh, items, n - 1)
             parent_idx == items[n][1]
             child_idxs == items[n][2]
             sample_name == get_value(sh, parent_idx, "Sample")
             names == SplitOnce(sample_name[3], "_")
             found == find_confirmed_merge_sites(sh, child_idxs)
             sites == found[1]
         IN  IF Len(sites.xyz) > 0
             THEN [dfs |-> acc.dfs \o
                       [k \in 1..Len(sites.xyz) |->
                           [brain_id |-> names[1],
                            segmentation_id |-> names[2],
                            segment_id |-> sites.segment_id[k],
                            groundtruth_id |-> sites.groundtruth_id[k],
                            xyz |-> sites.xyz[k]]],
                   n_merge_sites |-> acc.n_merge_sites + Len(sites.xyz),
                   n_reviewed_sites |-> acc.n_reviewed_sites + found[2]]
             ELSE acc

\* extract_merge_sites: the records of the concatenated frame and, with
\* verbose, the printed overall success rate n_merge_sites / n_reviewed_sites
\* as <<numerator, denominator>> and the printed count. The division raises
\* on a zero n_reviewed_sites and pd.concat raises on an empty list.
extract_merge_sites(sh, verbose) ==
    LET items == get_children_map(sh)
        acc == extract_loop(sh, items, Len(items))
    IN  IF (verbose /\ acc.n_reviewed_sites = 0) \/ acc.dfs = <<>>
        THEN [outcome |-> "raise", records |-> <<>>, rate |-> <<0, 0>>,
              n_merge_sites |-> 0]
        ELSE [outcome |-> "return", records |-> acc.dfs,
              rate |-> IF verbose
                       THEN <<acc.n_merge_sites, acc.n_reviewed_sites>>
                       ELSE <<0, 0>>,
              n_merge_sites |-> IF verbose THEN acc.n_merge_sites ELSE 0]

----------------------------------------------------------------------------
(* The sheet snapshots and the queries on them: the snapshot is fetched    *)
(* once and never changes, so each behaviour makes one query on it.        *)

\* The rows of a sheet.
MaxRows == 4

\* A parent row <<"P", v, 0>> with one of three Sample cells, or a child row
\* <<"C", m, r>> with its two checkboxes
RowKinds ==
    {<<"P", v, 0>> : v \in 1..3} \cup {<<"C", m, r>> : m \in {0, 1}, r \in {0, 1}}

Cell(name, display_value, value) ==
    [column_id |-> column_name_to_id[name], display_value |-> display_value,
     value |-> value]

s_1_s == <<"1", "_", "s">>
s_2_t == <<"2", "_", "t">>
s_007 == <<"0", "0", "7">>

SampleCell(v) ==
    CASE v = 1 -> Cell("Sample", PyStr(s_1_s), PyStr(s_1_s))
      [] v = 2 -> Cell("Sample", PyNone, PyStr(s_2_t))
      [] OTHER -> Cell("Sample", PyStr(<<>>), PyStr(s_2_t))

EmptyCell(name) == Cell(name, PyNone, PyNone)

RowIdOf(i) == 7000 + i

\* The row at place i of a sheet of the kinds ks: a child row belongs to
\* the closest parent row above it
RowAt(ks, i) ==
    LET k == ks[i]
        coords == PyStr(<<"(">> \o IntToStr(i) \o <<",", " ", "2", ",", " ", "3", "0", ")">>)
    IN  IF k[1] = "P"
        THEN [id |-> RowIdOf(i), parent_id |-> 0,
              cells |-> <<SampleCell(k[2]), EmptyCell("Merge Confirmation"),
                          EmptyCell("Reviewed?"), EmptyCell("Segmentation ID"),
                          EmptyCell("Ground Truth ID"),
                          EmptyCell("World Coordinates")>>]
        ELSE [id |-> RowIdOf(i),
              parent_id |-> RowIdOf(CHOOSE j \in 1..(i - 1) :
                                /\ ks[j][1] = "P"
                                /\ \A l \in (j + 1)..(i - 1) : ks[l][1] # "P"),
              cells |-> <<EmptyCell("Sample"),
                          Cell("Merge Confirmation", PyNone, PyBool(k[2] = 1)),
                          Cell("Reviewed?", PyNone, PyBool(k[3] = 1)),
                          Cell("Segmentation ID", PyNone,
                               PyStr(<<"s">> \o IntToStr(i))),
                          Cell("Ground Truth ID", PyStr(s_007), PyInt(7)),
                          Cell("World Coordinates", coords, coords)>>]

Sheets ==
    {[i \in 1..Len(ks) |-> RowAt(ks, i)] :
        ks \in {x \in UNION {[1..n -> RowKinds] : n \in 1..MaxRows} : x[1][1] = "P"}}

NoQuery == [op |-> "none", arg |-> <<>>, result |-> <<>>]

SheetInit == sheet \in Sheets /\ sheetOut = NoQuery

SheetIdle == sheet = <<>> /\ sheetOut = NoQuery

\* smartsheet_client.get_value(row_idx, column_name)
GetValue(row_idx, column_name) ==
    /\ sheetOut = NoQuery
    /\ sheetOut' = [op |-> "get_value", arg |-> <<row_idx, column_name>>,
                    result |-> get_value(sheet, row_idx, column_name)]
    /\ UNCHANGED sheet

\* find_confirmed_merge_sites(smartsheet_client, idxs) for the children of
\* the n-th parent of the children map
FindConfirmedMergeSites(n) ==
    LET idxs == get_children_map(sheet)[n][2]
    IN  /\ sheetOut = NoQuery
        /\ sheetOut' = [op |-> "find", arg |-> idxs,
                        result |-> find_confirmed_merge_sites(sheet, idxs)]
        /\ UNCHANGED sheet

\* extract_merge_sites(smartsheet_client, verbose)
ExtractMergeSites(verbose) ==
    /\ sheetOut = NoQuery
    /\ sheetOut' = [op |-> "extract", arg |-> verbose,
                    result |-> extract_merge_sites(sheet, verbose)]
    /\ UNCHANGED sheet

----------------------------------------------------------------------------
(* Direct calls of the listing operations and of find_img_prefix           *)

\* The smallest page sizes the storage may answer with
MaxPage == 2

\* Entries per response: small pages, and the default of the API
PageSizes == (1..MaxPage) \cup {MaxKeys}

s_exaspim_1 == <<"e", "x", "a", "s", "p", "i", "m", "_", "1">>
s_exaspim_2 == <<"e", "x", "a", "s", "p", "i", "m", "_", "2">>

\* The keyword arguments of list_bucket_prefixes
Keywords == {s_exaspim_, s_exaspim_1, s_exaspim_2}

\* The prefix arguments of list_prefixes and exists_in_prefix: a dataset
\* with and without its trailing "/", a fused.zarr, a fusion directory
ListedDirs ==
    {top_1_a, RStrip(top_1_a, "/"), PathJoin(top_1_a, s_fused_zarr),
     PathJoin(top_1_b, s_fusion) \o <<"/">>,
     PathJoin(PathJoin(top_1_b, s_fusion), s_fused_zarr) \o <<"/">>}

\* The target_name arguments of exists_in_prefix
TargetNames == {s_fusion, s_fused_zarr, IntToStr(NumLevels - 1)}

NoListing ==
    [op |-> "none", arg |-> <<>>, target |-> <<>>, id |-> PyStr(<<>>),
     ps |-> 0, dirs |-> <<>>, exists |-> FALSE]

ListIdle == listOut = NoListing

\* A dataset is uploaded before the bucket is queried.
ListUpload(i) ==
    /\ listOut = NoListing
    /\ Upload(i)
    /\ UNCHANGED listOut

\* list_bucket_prefixes(bucket, keyword), the storage answering with pages
\* of ps entries
ListBucketPrefixes(keyword, ps) ==
    /\ listOut = NoListing
    /\ listOut' = [NoListing EXCEPT !.op = "list_bucket_prefixes", !.arg = keyword,
                                    !.ps = ps,
                                    !.dirs = list_bucket_prefixes(bucket, keyword, ps)]
    /\ UNCHANGED locatorVars

\* list_prefixes(bucket, prefix)
ListPrefixes(prefix, ps) ==
    /\ listOut = NoListing
    /\ listOut' = [NoListing EXCEPT !.op = "list_prefixes", !.arg = prefix,
                                    !.ps = ps,
                                    !.dirs = list_prefixes(bucket, prefix, ps)]
    /\ UNCHANGED locatorVars

\* exists_in_prefix(bucket, prefix, target_name)
ExistsInPrefix(prefix, target_name, ps) ==
    /\ listOut = NoListing
    /\ listOut' = [NoListing EXCEPT !.op = "exists_in_prefix", !.arg = prefix,
                                    !.target = target_name, !.ps = ps,
                                    !.exists = exists_in_prefix(bucket, prefix,
                                                                target_name, ps)]
    /\ UNCHANGED locatorVars

\* find_img_prefix(brain_id), the listings complete in one response
FindImgPrefix(brain_id) ==
    /\ listOut = NoListing
    /\ listOut' = [NoListing EXCEPT !.op = "find_img_prefix", !.id = brain_id,
                                    !.ps = MaxKeys,
                                    !.dirs = find_img_prefix(bucket, brain_id, MaxKeys)]
    /\ UNCHANGED locatorVars

----------------------------------------------------------------------------
(* The specifications                                                      *)

\* Spec: the locator, its lookup file and the bucket
Init == LocatorInit /\ JsonIdle /\ DirIdle /\ SheetIdle /\ ListIdle

Next ==
    \/ \E i \in 1..Len(Catalogue) :
           Upload(i) /\ UNCHANGED <<jsonVars, dirVars, sheetVars, listVars>>
    \/ \E brain_id \in BrainIds, use_lookup \in BOOLEAN :
           GetImgPrefix(brain_id, use_lookup)
           /\ UNCHANGED <<jsonVars, dirVars, sheetVars, listVars>>

Spec == Init /\ [][Next]_vars

\* JsonSpec: a dict written by write_json and read back by read_json
JsonSpecInit == LocatorInit /\ JsonInit /\ DirIdle /\ SheetIdle /\ ListIdle

JsonNext ==
    \/ WriteJson /\ UNCHANGED <<locatorVars, dirVars, sheetVars, listVars>>
    \/ ReadJson /\ UNCHANGED <<locatorVars, dirVars, sheetVars, listVars>>

JsonSpec == JsonSpecInit /\ [][JsonNext]_vars

\* DirSpec: find_most_recent_dirname on a list of results prefixes
DirSpecInit == LocatorInit /\ JsonIdle /\ DirInit /\ SheetIdle /\ ListIdle

DirNext == FindMostRecentDirname /\ UNCHANGED <<locatorVars, jsonVars, sheetVars, listVars>>

DirSpec == DirSpecInit /\ [][DirNext]_vars

\* SheetSpec: the queries on one sheet snapshot
SheetSpecInit == LocatorInit /\ JsonIdle /\ DirIdle /\ SheetInit /\ ListIdle

SheetNext ==
    \/ \E row_idx \in 0..(Len(sheet) - 1), i \in 1..Len(Columns) :
           GetValue(row_idx, Columns[i])
           /\ UNCHANGED <<locatorVars, jsonVars, dirVars, listVars>>
    \/ \E n \in 1..Len(get_children_map(sheet)) :
           FindConfirmedMergeSites(n)
           /\ UNCHANGED <<locatorVars, jsonVars, dirVars, listVars>>
    \/ \E verbose \in BOOLEAN :
           ExtractMergeSites(verbose)
           /\ UNCHANGED <<locatorVars, jsonVars, dirVars, listVars>>

SheetSpec == SheetSpecInit /\ [][SheetNext]_vars

\* ListSpec: datasets are uploaded, then one listing operation or
\* find_img_prefix is called on the bucket
ListSpecInit == LocatorInit /\ JsonIdle /\ DirIdle /\ SheetIdle /\ ListIdle

ListNext ==
    \/ \E i \in 1..Len(Catalogue) :
           ListUpload(i) /\ UNCHANGED <<jsonVars, dirVars, sheetVars>>
    \/ \E keyword \in Keywords, ps \in PageSizes :
           ListBucketPrefixes(keyword, ps)
           /\ UNCHANGED <<jsonVars, dirVars, sheetVars>>
    \/ \E prefix \in ListedDirs, ps \in PageSizes :
           ListPrefixes(prefix, ps)
           /\ UNCHANGED <<jsonVars, dirVars, sheetVars>>
    \/ \E prefix \in ListedDirs, target_name \in TargetNames, ps \in PageSizes :
           ExistsInPrefix(prefix, target_name, ps)
           /\ UNCHANGED <<jsonVars, dirVars, sheetVars>>
    \/ \E brain_id \in BrainIds :
           FindImgPrefix(brain_id)
           /\ UNCHANGED <<jsonVars, dirVars, sheetVars>>

ListSpec == ListSpecInit /\ [][ListNext]_vars

----------------------------------------------------------------------------
(* The claims on the locator (Spec)                                        *)

Missed == lastCall.outcome # "none" /\ ~lastCall.hit

\* The key in the bucket of a candidate s3://aind-open-data/<key>
BucketKey(candidate) == SubSeq(candidate, Len(s_s3_root) + 2, Len(candidate))

\* C1: on a cache miss get_img_prefix returns a path exactly when
\* find_img_prefix gave one candidate, and the path is that candidate; with
\* no candidate or several it raises, returns no path, and the message
\* carries the whole list of candidates.
C1_ExactlyOneCandidate ==
    Missed =>
        /\ (lastCall.outcome = "return") <=> (Len(lastCall.found) = 1)
        /\ lastCall.outcome = "return" =>
               /\ lastCall.value = lastCall.found[1] \o <<"/">>
               /\ lastCall.msg = <<>>
        /\ lastCall.outcome # "return" =>
               /\ lastCall.outcome = "raise"
               /\ lastCall.value = <<>>
               /\ lastCall.msg = lastCall.found
        /\ \A i \in 1..Len(lastCall.found) :
               \E j \in 1..Len(lastCall.listed) :
                   StartsWith(BucketKey(lastCall.found[i]), lastCall.listed[j])

\* C1 witness: a miss that found two candidates raised with both of them.
C1_Witness ==
    /\ Missed
    /\ lastCall.outcome = "raise"
    /\ Len(lastCall.msg) = 2
    /\ lastCall.msg[1] # lastCall.msg[2]

\* The levels 0..7 are all under the candidate in the bucket
HasEightLevels(candidate) ==
    \A l \in 0..7 :
        \E o \in bucket :
            StartsWith(o.key, BucketKey(candidate) \o <<"/">> \o IntToStr(l) \o <<"/">>)

\* C2 (as claimed): every candidate find_img_prefix accepts, and so every
\* path a cache miss returns, has all eight levels "0".."7" in the bucket.
C2_AcceptedHaveEightLevels ==
    Missed => \A i \in 1..Len(lastCall.found) : HasEightLevels(lastCall.found[i])

\* C3: no candidate in the result of find_img_prefix contains "test" in
\* any letter case, whatever its identifier and pyramid.
C3_NoTestCandidate ==
    Missed =>
        \A i \in 1..Len(lastCall.found) :
            \A k \in 1..(Len(lastCall.found[i]) - 3) :
                ~(/\ lastCall.found[i][k] \in {"t", "T"}
                  /\ lastCall.found[i][k + 1] \in {"e", "E"}
                  /\ lastCall.found[i][k + 2] \in {"s", "S"}
                  /\ lastCall.found[i][k + 3] \in {"t", "T"})

\* C3 witness: the listing held the complete, plausible exaSPIM_1_TEST/ of
\* the asked identifier beside another dataset, and only the other one was
\* accepted.
C3_Witness ==
    /\ Missed
    /\ \E j \in 1..Len(lastCall.listed) : lastCall.listed[j] = top_1_TEST
    /\ Len(lastCall.listed) = 2
    /\ Len(lastCall.found) = 1

\* C4 (as claimed): once get_img_prefix(id, cachePath) succeeded on a cache
\* miss, a later get_img_prefix(id, cachePath) is a cache hit: it returns
\* the same path, lists nothing and does not rewrite the file.
C4_RepeatIsCacheHit ==
    lastCall.prior # <<>> =>
        /\ lastCall.hit
        /\ lastCall.outcome = "return"
        /\ lastCall.value = lastCall.prior
        /\ ~lastCall.wrote

\* C5 (as claimed): no step removes or changes an entry of the lookup file;
\* a cache hit or a failing call leaves the file as it is, and a successful
\* miss adds exactly one mapping to those it held.
C5_CacheOnlyGrows ==
    [][/\ \A i \in 1..Len(read_json(cacheFile)) :
              /\ DictHas(read_json(cacheFile'), read_json(cacheFile)[i][1])
              /\ DictGet(read_json(cacheFile'), read_json(cacheFile)[i][1])
                     = read_json(cacheFile)[i][2]
       /\ (lastCall'.hit \/ lastCall'.outcome = "raise") => cacheFile' = cacheFile
       /\ cacheFile' # cacheFile =>
              Len(read_json(cacheFile')) = Len(read_json(cacheFile)) + 1]_vars

----------------------------------------------------------------------------
(* The claim on io_util (JsonSpec)                                         *)

Keys(d) == {d[i][1] : i \in 1..Len(d)}

\* The value of the last item of d whose key is written as name
LastValueFor(d, name) ==
    d[CHOOSE i \in 1..Len(d) :
          /\ Str(d[i][1]) = name
          /\ \A j \in (i + 1)..Len(d) : Str(d[j][1]) # name][2]

\* C6 (as claimed): read_json after write_json gives a mapping identical
\* to the one written.
C6_RoundTripIdentical == jsonPc = "read" => jsonOut = jsonIn

\* C6 (amended): read_json after write_json gives the mapping with every
\* key as its str: the keys read are the str of the keys written, each with
\* the value of the last item written under that str, and the mapping read
\* is identical to the one written when every key written is a str.
C6_RoundTripStrKeys ==
    jsonPc = "read" =>
        /\ Keys(jsonOut) = {PyStr(Str(k)) : k \in Keys(jsonIn)}
        /\ \A i \in 1..Len(jsonOut) :
               jsonOut[i][2] = LastValueFor(jsonIn, jsonOut[i][1][3])
        /\ (\A k \in Keys(jsonIn) : k[1] = "str") => jsonOut = jsonIn

\* C6 witness: a mapping with the key "1" and the key 1, with different
\* paths, was written and read back.
C6_Witness ==
    /\ jsonPc = "read"
    /\ Len(jsonIn) = 2
    /\ jsonIn[1][1] = PyStr(<<"1">>)
    /\ jsonIn[2][1] = PyInt(1)
    /\ jsonIn[1][2] # jsonIn[2][2]
    /\ Len(jsonOut) = 1

----------------------------------------------------------------------------
(* The claim on data_util (DirSpec)                                        *)

\* The YYYYMMDD before the trailing "/" of a results prefix
EmbeddedDate(prefix) == SubSeq(prefix, Len(prefix) - DateLen, Len(prefix) - 1)

\* C7: find_most_recent_dirname returns "results_" followed by an embedded
\* date of the list that no embedded date of the list exceeds, wherever it
\* stands in the list.
C7_MostRecentDate ==
    dirsOut # <<>> =>
        \E i \in 1..Len(dirsIn) :
            /\ dirsOut = s_results_ \o EmbeddedDate(dirsIn[i])
            /\ \A j \in 1..Len(dirsIn) :
                   ~StrLess(EmbeddedDate(dirsIn[i]), EmbeddedDate(dirsIn[j]))

\* C7 witness: the latest date stood first of three different dates and
\* was returned.
C7_Witness ==
    /\ Len(dirsIn) = 3
    /\ dirsOut = s_results_ \o EmbeddedDate(dirsIn[1])
    /\ StrLess(EmbeddedDate(dirsIn[3]), EmbeddedDate(dirsIn[2]))
    /\ StrLess(EmbeddedDate(dirsIn[2]), EmbeddedDate(dirsIn[1]))

----------------------------------------------------------------------------
(* The claims on smartsheet_util (SheetSpec)                               *)

\* The checkboxes of the row at index idx, read from the cells themselves
Checked(idx, place) == sheet[idx + 1].cells[place].value = PyBool(TRUE)
IsMerge(idx) == Checked(idx, 2)
IsReviewed(idx) == Checked(idx, 3)

ReviewedCount(idxs) == Cardinality({k \in 1..Len(idxs) : IsReviewed(idxs[k])})

ConfirmedOf(idxs) == SelectSeq(idxs, LAMBDA i : IsMerge(i) /\ IsReviewed(i))

\* C8: find_confirmed_merge_sites gives one record for each child row whose
\* "Merge Confirmation" and "Reviewed?" are both true, in row order, none
\* for any other child, and the reviewed total counts every child whose
\* "Reviewed?" is true, confirmed or not.
C8_ConfirmedAndReviewed ==
    sheetOut.op = "find" =>
        /\ sheetOut.result[1].segment_id =
               [k \in 1..Len(ConfirmedOf(sheetOut.arg)) |->
                   sheet[ConfirmedOf(sheetOut.arg)[k] + 1].cells[4].value]
        /\ Len(sheetOut.result[1].groundtruth_id) = Len(ConfirmedOf(sheetOut.arg))
        /\ sheetOut.result[1].xyz =
               [k \in 1..Len(ConfirmedOf(sheetOut.arg)) |->
                   <<ConfirmedOf(sheetOut.arg)[k] + 1, 2, 30>>]
        /\ sheetOut.result[2] = ReviewedCount(sheetOut.arg)

\* C8 witness: among the children one was reviewed and confirmed, one
\* reviewed and not confirmed: one record, reviewed total two.
C8_Witness ==
    /\ sheetOut.op = "find"
    /\ \E k \in 1..Len(sheetOut.arg) :
           IsReviewed(sheetOut.arg[k]) /\ ~IsMerge(sheetOut.arg[k])
    /\ Len(sheetOut.result[1].xyz) = 1
    /\ sheetOut.result[2] = 2

\* The child rows of the sheet, as indices
ChildIdxs == {i \in 0..(Len(sheet) - 1) : sheet[i + 1].parent_id # 0}

\* C9 (as claimed): the overall success ratio of extract_merge_sites is the
\* number of confirmed and reviewed children of all parents over the
\* number of reviewed children of all parents, and the records and the
\* confirmed count are those of all parents.
C9_RatioOverAllParents ==
    (sheetOut.op = "extract" /\ sheetOut.arg /\ sheetOut.result.outcome = "return") =>
        /\ sheetOut.result.rate =
               <<Cardinality({i \in ChildIdxs : IsMerge(i) /\ IsReviewed(i)}),
                 Cardinality({i \in ChildIdxs : IsReviewed(i)})>>
        /\ sheetOut.result.n_merge_sites =
               Cardinality({i \in ChildIdxs : IsMerge(i) /\ IsReviewed(i)})
        /\ Len(sheetOut.result.records) =
               Cardinality({i \in ChildIdxs : IsMerge(i) /\ IsReviewed(i)})

\* The place of a column among the cells of a row
PlaceOf(column_name) == CHOOSE i \in 1..Len(Columns) : Columns[i] = column_name

AskedCell == sheet[sheetOut.arg[1] + 1].cells[PlaceOf(sheetOut.arg[2])]

DisplayPresent(cell) ==
    cell.display_value[1] = "str" /\ cell.display_value[3] # <<>>

\* C10: get_value returns the display value of the cell when there is one,
\* and the raw value when the display value is None or empty.
C10_DisplayValueFirst ==
    sheetOut.op = "get_value" =>
        IF DisplayPresent(AskedCell)
        THEN sheetOut.result = AskedCell.display_value
        ELSE sheetOut.result = AskedCell.value

\* C10 witness: a cell whose display value "007" differs from its raw
\* value 7 gave the display value.
C10_Witness ==
    /\ sheetOut.op = "get_value"
    /\ DisplayPresent(AskedCell)
    /\ AskedCell.value = PyInt(7)
    /\ sheetOut.result = PyStr(s_007)

----------------------------------------------------------------------------
(* The claims on the listing operations (ListSpec)                         *)

\* prefix with the "/" that list_prefixes appends when it is missing
AsDir(prefix) == IF EndsWith(prefix, <<"/">>) THEN prefix ELSE prefix \o <<"/">>

\* All directories the storage lists under prefix, in its order
DirectoriesUnder(prefix) == InOrder(CommonPrefixes(bucket, prefix))

\* Whether the storage lists a file or a directory named name under prefix
ListedUnder(prefix, name) ==
    \/ \E k \in ContentKeys(bucket, prefix) : LastField(k) = name
    \/ \E d \in CommonPrefixes(bucket, prefix) : LastField(RStrip(d, "/")) = name

\* C11: whatever the size of the pages the storage answers with, each
\* listing operation covers the whole listing: list_bucket_prefixes returns
\* every top-level directory that matches the keyword and list_prefixes
\* every immediate subdirectory, in the storage's order, and
\* exists_in_prefix finds a name that is on any page.
C11_ListingsCoverAllPages ==
    /\ listOut.op = "list_bucket_prefixes" =>
           listOut.dirs = SelectSeq(DirectoriesUnder(<<>>),
                                    LAMBDA d : Contains(Lower(d), listOut.arg))
    /\ listOut.op = "list_prefixes" =>
           listOut.dirs = DirectoriesUnder(AsDir(listOut.arg))
    /\ listOut.op = "exists_in_prefix" =>
           listOut.exists = ListedUnder(listOut.arg, listOut.target)

\* The part of C11 on the two operations that follow the continuation
\* tokens (list_bucket_prefixes, exists_in_prefix)
C11_LoopingListingsCoverAllPages ==
    /\ listOut.op = "list_bucket_prefixes" =>
           listOut.dirs = SelectSeq(DirectoriesUnder(<<>>),
                                    LAMBDA d : Contains(Lower(d), listOut.arg))
    /\ listOut.op = "exists_in_prefix" =>
           listOut.exists = ListedUnder(listOut.arg, listOut.target)

----------------------------------------------------------------------------
(* The claims on find_img_prefix (ListSpec)                                *)

\* The level-0 arrays in the bucket of a candidate s3://aind-open-data/<key>
Level0(candidate) ==
    {o \in bucket :
        o.key = PathJoin(PathJoin(BucketKey(candidate), IntToStr(0)), s_zarray)}

\* Level 0 of the candidate opens and one of its dimensions exceeds 25,000
OpensAndExceeds(candidate) ==
    \E o \in Level0(candidate) :
        /\ o.shape # Unreadable
        /\ \E i \in 1..Len(o.shape) : o.shape[i] > PlausibleDim

\* The prefix find_img_prefix examines for a listed directory, and the
\* candidate path it builds from it
ExaminedFor(listed) ==
    IF ListedUnder(listed, s_fusion) THEN PathJoin(listed, s_fusion) ELSE listed

PathFor(listed) == PathJoin(PathJoin(s_s3_root, ExaminedFor(listed)), s_fused_zarr)

\* The directories find_img_prefix(brain_id) loops over
ListedFor(brain_id) ==
    SelectSeq(DirectoriesUnder(<<>>),
              LAMBDA d : Contains(Lower(d), s_exaspim_ \o Str(brain_id)))

InResult(candidate) == \E i \in 1..Len(listOut.dirs) : listOut.dirs[i] = candidate

\* C12: find_img_prefix returns a list, never a failure of the shape check;
\* every candidate in it has a level 0 that opens with a dimension above
\* 25,000, and a candidate whose level 0 is missing or unreadable is the
\* only one its failure excludes: every other listed directory that is
\* valid and whose level 0 opens with a dimension above 25,000 is returned.
C12_ReadFailureOnlyExcludes ==
    listOut.op = "find_img_prefix" =>
        /\ \A i \in 1..Len(listOut.dirs) : OpensAndExceeds(listOut.dirs[i])
        /\ \A j \in 1..Len(ListedFor(listOut.id)) :
               InResult(PathFor(ListedFor(listOut.id)[j]))
               <=> /\ is_valid_img_prefix(bucket, ExaminedFor(ListedFor(listOut.id)[j]),
                                          listOut.id, MaxKeys)
                   /\ OpensAndExceeds(PathFor(ListedFor(listOut.id)[j]))

\* A listed directory that is valid but whose level 0 cannot be read comes
\* before a candidate that find_img_prefix returned.
C12_Witness ==
    /\ listOut.op = "find_img_prefix"
    /\ \E j \in 1..Len(ListedFor(listOut.id)) :
           /\ is_valid_img_prefix(bucket, ExaminedFor(ListedFor(listOut.id)[j]),
                                  listOut.id, MaxKeys)
           /\ \E o \in Level0(PathFor(ListedFor(listOut.id)[j])) : o.shape = Unreadable
           /\ ~InResult(PathFor(ListedFor(listOut.id)[j]))
           /\ \E k \in (j + 1)..Len(ListedFor(listOut.id)) :
                  InResult(PathFor(ListedFor(listOut.id)[k]))

====
